---------------------------- MODULE Spec2Model ----------------------------
(***************************************************************************)
(* Model of src/img_utilities.py: the module-level render_text_image and   *)
(* the TextImageDataset class (construction, __len__, __getitem__, its own *)
(* render_text_image and generate_all_combinations).                       *)
(*                                                                         *)
(* A Python string is a sequence of one-character strings; the empty       *)
(* string '' is << >>.  A Python tuple or list is a sequence.              *)
(***************************************************************************)
EXTENDS Integers, Sequences, FiniteSets, TLC

VARIABLES
    fontfs,     \* the font files on disk: font_name -> metrics, or NoFile
    self,       \* the TextImageDataset object (its fields)
    ret         \* what the last call did: operation, arguments, outcome

vars == <<fontfs, self, ret>>

---------------------------------------------------------------------------
(* Bounds of the model *)

\* longest alphabet handed to the dataset constructor of the enumeration
MaxAlphabet == 3
\* largest max_length handed to the dataset constructor of the enumeration
MaxLength == 3

\* the characters alphabets and texts are drawn from; "r" stands for a
\* right-to-left (Arabic) letter, "a" and "b" for left-to-right letters
Chars == {"a", "b", "r"}

RECURSIVE SeqsUpTo(_, _)
\* every sequence over S of length 0..n
SeqsUpTo(S, n) ==
    IF n = 0 THEN {<< >>}
    ELSE LET shorter == SeqsUpTo(S, n - 1)
         IN  shorter \cup {Append(s, c) : s \in shorter, c \in S}

---------------------------------------------------------------------------
(* TextImageDataset.generate_all_combinations *)

\* ''.join(combination): the concatenation of the strings of a tuple
RECURSIVE join(_)
join(combination) ==
    IF combination = << >> THEN << >>
    ELSE Head(combination) \o join(Tail(combination))

\* a product whose leftmost position advances first
RECURSIVE product_leftfirst(_, _)
product_leftfirst(alphabet, repeat) ==
    IF repeat = 0 THEN << << >> >>
    ELSE LET result == product_leftfirst(alphabet, repeat - 1)
             m == Len(alphabet)
         IN  [i \in 1..(Len(result) * m) |->
                 <<alphabet[((i - 1) % m) + 1]>> \o result[((i - 1) \div m) + 1]]

\* itertools.product(alphabet, repeat=length) as the list of its tuples, in
\* the order the iterator yields them: the rightmost position advances first
RECURSIVE product(_, _)
product(alphabet, repeat) ==
    IF repeat = 0 THEN << << >> >>
    ELSE LET result == product(alphabet, repeat - 1)
             m == Len(alphabet)
         IN  [i \in 1..(Len(result) * m) |->
                 Append(result[((i - 1) \div m) + 1], alphabet[((i - 1) % m) + 1])]

\* the inner loop: texts.append(''.join(combination)) for each combination
AppendJoined(texts, combinations) ==
    texts \o [i \in 1..Len(combinations) |-> join(combinations[i])]

\* the outer loop from `length` on: for length in range(length, max_length + 1)
RECURSIVE CombinationsFrom(_, _, _, _)
CombinationsFrom(texts, alphabet, length, max_length) ==
    IF length > max_length THEN texts
    ELSE CombinationsFrom(AppendJoined(texts, product(alphabet, length)),
                          alphabet, length + 1, max_length)

\* an enumeration that starts from texts = []
generate_without_empty(alphabet, max_length) ==
    CombinationsFrom(<< >>, alphabet, 1, max_length)

\* an enumeration whose loop starts at range(0, ...)
generate_from_zero(alphabet, max_length) ==
    CombinationsFrom(<< << >> >>, alphabet, 0, max_length)

\* texts = ['']; the loops; return texts
generate_all_combinations(alphabet, max_length) ==
    CombinationsFrom(<< << >> >>, alphabet, 1, max_length)

---------------------------------------------------------------------------
(* The libraries render_text_image calls: PIL, arabic_reshaper, bidi *)

\* largest top offset of a font's text bounding box (pixels at font_size 1)
MaxTop == 2
\* largest descent of a font (pixels at font_size 1)
MaxDescent == 2
\* longest text handed to the module-level render_text_image
MaxText == 2

\* the characters of rendered texts: "a" is left-to-right, "r" right-to-left
RenderChars == {"a", "r"}
\* the contextual forms arabic_reshaper substitutes for the letter "r"
RtlForms == {"r", "r_iso", "r_ini", "r_med", "r_fin"}

FontNames == {"font.ttf", "missing.ttf"}
FontSizes == {1, 2}
ImageSizes == {<<3, 2>>, <<8, 7>>}

\* no file of that name, or not a font file
NoFile == [exists |-> FALSE, left |-> 0, top |-> 0, advance |-> 0, height |-> 0, descent |-> 0]
\* the font files there can be: what the glyphs measure at font_size 1
FontFiles ==
    [exists : {TRUE}, left : {0, 1}, top : 0..MaxTop, advance : {1}, height : {1},
     descent : 0..MaxDescent]

\* the font object of a file at a size: metrics scale with font_size
FontObject(name, file, size) ==
    [name |-> name, left |-> file.left * size, top |-> file.top * size,
     advance |-> file.advance * size, height |-> file.height * size,
     descent |-> file.descent * size]

\* ImageFont.truetype(font_name, font_size): the font, or IOError raised
truetype(font_name, font_size) ==
    IF fontfs[font_name].exists
    THEN [raised |-> "None", font |-> FontObject(font_name, fontfs[font_name], font_size)]
    ELSE [raised |-> "IOError", font |-> FontObject(font_name, NoFile, font_size)]

\* ImageFont.load_default(): the built-in bitmap font, which needs no file and
\* whose text boxes start at (0, 0)
load_default ==
    [name |-> "default", left |-> 0, top |-> 0, advance |-> 1, height |-> 1, descent |-> 0]

\* font.getmetrics()[1]
getdescent(font) == font.descent

\* draw.textbbox((0, 0), text, font=font): (left, top, right, bottom)
textbbox(text, font) ==
    IF text = << >> THEN <<0, 0, 0, 0>>
    ELSE <<font.left, font.top,
           font.left + Len(text) * font.advance, font.top + font.height>>

IsRtl(c) == c \in RtlForms

\* arabic_reshaper.reshape(text): each right-to-left letter becomes the form
\* its neighbours call for (isolated, initial, medial, final)
reshape(text) ==
    [i \in 1..Len(text) |->
        IF ~IsRtl(text[i]) THEN text[i]
        ELSE LET before == i > 1 /\ IsRtl(text[i - 1])
                 after == i < Len(text) /\ IsRtl(text[i + 1])
             IN  IF before /\ after THEN "r_med"
                 ELSE IF before THEN "r_fin"
                 ELSE IF after THEN "r_ini"
                 ELSE "r_iso"]

Reverse(s) == [i \in 1..Len(s) |-> s[Len(s) + 1 - i]]

\* the longest prefix of s whose characters all have direction rtl
RECURSIVE RunLen(_, _)
RunLen(s, rtl) ==
    IF s = << >> \/ IsRtl(Head(s)) # rtl THEN 0 ELSE 1 + RunLen(Tail(s), rtl)

\* s with every maximal run of direction rtl reversed in place
RECURSIVE ReverseRuns(_, _)
ReverseRuns(s, rtl) ==
    IF s = << >> THEN << >>
    ELSE LET n == RunLen(s, rtl)
         IN  IF n = 0 THEN <<Head(s)>> \o ReverseRuns(Tail(s), rtl)
             ELSE Reverse(SubSeq(s, 1, n)) \o ReverseRuns(SubSeq(s, n + 1, Len(s)), rtl)

\* bidi.algorithm.get_display(text): logical order to visual order, the base
\* direction taken from the first character (all characters here are strong)
get_display(text) ==
    IF text = << >> THEN << >>
    ELSE IF IsRtl(Head(text)) THEN Reverse(ReverseRuns(text, FALSE))
    ELSE ReverseRuns(text, TRUE)

\* "Handle Arabic text": the text as it is measured and drawn
bidi_text(text, is_arabic) ==
    IF is_arabic THEN get_display(reshape(text)) ELSE text

---------------------------------------------------------------------------
(* The module-level render_text_image *)

AnchorNames ==
    {"top-left", "top-center", "top-right", "center-left", "center", "center-right",
     "bottom-left", "bottom-center", "bottom-right"}
BottomAnchors == {"bottom-left", "bottom-center", "bottom-right"}
\* the position strings tried: the nine anchors and one that is none of them
PositionStrings == AnchorNames \cup {"middle"}

\* the positions dictionary
positions(image_size, text_width, text_height) ==
    [p \in AnchorNames |->
        CASE p = "top-left" -> <<0, 0>>
          [] p = "top-center" -> <<(image_size[1] - text_width) \div 2, 0>>
          [] p = "top-right" -> <<image_size[1] - text_width, 0>>
          [] p = "center-left" -> <<0, (image_size[2] - text_height) \div 2>>
          [] p = "center" -> <<(image_size[1] - text_width) \div 2,
                               (image_size[2] - text_height) \div 2>>
          [] p = "center-right" -> <<image_size[1] - text_width,
                                     (image_size[2] - text_height) \div 2>>
          [] p = "bottom-left" -> <<0, image_size[2] - text_height>>
          [] p = "bottom-center" -> <<(image_size[1] - text_width) \div 2,
                                      image_size[2] - text_height>>
          [] p = "bottom-right" -> <<image_size[1] - text_width,
                                     image_size[2] - text_height>>]

\* a lookup whose default is the center anchor
positions_get_center(table, position) ==
    IF position \in DOMAIN table THEN table[position] ELSE table["center"]

\* positions.get(position, (0, 0))
positions_get(table, position) ==
    IF position \in DOMAIN table THEN table[position] ELSE <<0, 0>>

\* an adjustment made by the first call of the process only
AdjustBottomOnce(xy, position, font) ==
    IF position \in BottomAnchors /\ ret.op = "none"
    THEN <<xy[1], xy[2] - font.descent>> ELSE xy

\* "Adjust for bottom alignments": y -= font.getmetrics()[1]
AdjustBottom(xy, position, font) ==
    IF position \in BottomAnchors THEN <<xy[1], xy[2] - getdescent(font)>> ELSE xy

\* the image after draw.text(xy, text, font, fill): the canvas, what was
\* drawn on it and where, and the bounding box of the pixels drawn
Drawn(image_size, xy, text, font) ==
    [size |-> image_size, text |-> text, font |-> font, at |-> xy,
     box |-> LET b == textbbox(text, font)
             IN  <<xy[1] + b[1], xy[2] + b[2], xy[1] + b[3], xy[2] + b[4]>>]

\* an image that was never made
NoImage == Drawn(<<0, 0>>, <<0, 0>>, << >>, load_default)

\* render_text_image(text, image_size, font_name, font_size, position, is_arabic):
\* the exception raised ("None" for none) and the image returned
render_text_image(text, image_size, font_name, font_size, position, is_arabic) ==
    LET loaded == truetype(font_name, font_size)
        font == loaded.font
        shown == bidi_text(text, is_arabic)
        text_bbox == textbbox(shown, font)
        text_width == text_bbox[3] - text_bbox[1]
        text_height == text_bbox[4] - text_bbox[2]
        xy == AdjustBottom(
                  positions_get(positions(image_size, text_width, text_height), position),
                  position, font)
    IN  IF loaded.raised # "None"
        THEN [raised |-> loaded.raised, image |-> NoImage]
        ELSE [raised |-> "None", image |-> Drawn(image_size, xy, shown, font)]

---------------------------------------------------------------------------
(* TextImageDataset *)

\* a font load without the try/except
DatasetFontUncaught(font_name, font_size) == truetype(font_name, font_size)

\* try: ImageFont.truetype(...) except IOError: ImageFont.load_default()
DatasetFont(font_name, font_size) ==
    LET loaded == truetype(font_name, font_size)
    IN  IF loaded.raised = "IOError" THEN [raised |-> "None", font |-> load_default]
        ELSE loaded

\* a text position without the halving
text_position_unhalved(image_size, text_width, text_height) ==
    <<image_size[1] - text_width, image_size[2] - text_height>>

\* text_position of TextImageDataset.render_text_image
text_position(image_size, text_width, text_height) ==
    <<(image_size[1] - text_width) \div 2, (image_size[2] - text_height) \div 2>>

\* TextImageDataset.render_text_image(self, text)
Dataset_render_text_image(obj, text) ==
    LET loaded == DatasetFont(obj.font_name, obj.font_size)
        font == loaded.font
        shown == bidi_text(text, obj.is_arabic)
        text_bbox == textbbox(shown, font)
        text_width == text_bbox[3] - text_bbox[1]
        text_height == text_bbox[4] - text_bbox[2]
    IN  IF loaded.raised # "None"
        THEN [raised |-> loaded.raised, image |-> NoImage]
        ELSE [raised |-> "None",
              image |-> Drawn(obj.image_size,
                              text_position(obj.image_size, text_width, text_height),
                              shown, font)]

\* self.transform: ToTensor, then Normalize((0.5,), (0.5,)); the drawing is
\* kept and its pixel range recorded, [0, 1] having become [-1, 1]
transform(image) == [image |-> image, range |-> <<-1, 1>>]

\* TextImageDataset.__init__: the fields of the new object
Dataset_init(alphabet, max_length, font_name, font_size, image_size, is_arabic) ==
    [alphabet |-> alphabet, max_length |-> max_length, font_name |-> font_name,
     font_size |-> font_size, image_size |-> image_size, is_arabic |-> is_arabic,
     texts |-> generate_all_combinations(alphabet, max_length)]

---------------------------------------------------------------------------
(* The state machine *)

\* largest max_length of the datasets whose items are fetched
MaxItemLength == 2

\* the alphabets of the datasets whose items are fetched
ItemAlphabets == {<< >>, << <<"a">> >>, << <<"r">>, <<"a">> >>}

\* an alphabet: a sequence of one-character strings
Alphabets(chars, n) == SeqsUpTo({<<c>> : c \in chars}, n)

\* the font files on disk: "font.ttf" is a font, "missing.ttf" does not exist
FontEnvs == {[n \in FontNames |-> IF n = "font.ttf" THEN f ELSE NoFile] : f \in FontFiles}

NoDataset == Dataset_init(<< >>, -1, "", 0, <<0, 0>>, FALSE)
NoCall == [op |-> "none", args |-> << >>, raised |-> "None", value |-> << >>]

\* no font files, no dataset, nothing called
InitEnum ==
    /\ fontfs = [n \in FontNames |-> NoFile]
    /\ self = NoDataset
    /\ ret = NoCall

\* TextImageDataset(alphabet, max_length, font_name, font_size, image_size, is_arabic)
DatasetNew(alphabet, max_length, font_name, font_size, image_size, is_arabic) ==
    /\ ret.op = "none"
    /\ self' = Dataset_init(alphabet, max_length, font_name, font_size, image_size, is_arabic)
    /\ ret' = [op |-> "__init__", args |-> <<alphabet, max_length>>, raised |-> "None",
               value |-> << >>]
    /\ UNCHANGED fontfs

\* Python's list indexing texts[idx]: a negative idx counts from the end
ListIndex(list, idx) ==
    IF 0 <= idx /\ idx < Len(list) THEN [raised |-> "None", at |-> idx + 1]
    ELSE IF -Len(list) <= idx /\ idx < 0 THEN [raised |-> "None", at |-> Len(list) + idx + 1]
    ELSE [raised |-> "IndexError", at |-> 0]

\* TextImageDataset.__len__
DatasetLen ==
    /\ ret' = [op |-> "__len__", args |-> << >>, raised |-> "None", value |-> Len(self.texts)]
    /\ UNCHANGED <<fontfs, self>>

NextEnum ==
    \/ \E alphabet \in Alphabets(Chars, MaxAlphabet), max_length \in 0..MaxLength,
          font_name \in FontNames, is_arabic \in BOOLEAN :
           DatasetNew(alphabet, max_length, font_name, 1, <<8, 7>>, is_arabic)
    \/ ret.op = "__init__" /\ DatasetLen

\* the enumeration: datasets are constructed from every alphabet and max_length
SpecEnum == InitEnum /\ [][NextEnum]_vars

\* render_text_image(text, image_size, font_name, font_size, position, is_arabic)
RenderCall(text, image_size, font_name, font_size, position, is_arabic) ==
    LET r == render_text_image(text, image_size, font_name, font_size, position, is_arabic)
    IN  /\ ret' = [op |-> "render_text_image",
                   args |-> <<text, image_size, font_name, font_size, position, is_arabic>>,
                   raised |-> r.raised, value |-> r.image, nth |-> 1]
        /\ UNCHANGED <<fontfs, self>>

\* how many times in a row a caller repeats one request
MaxRepeat == 2

\* the call just made, made again with the same arguments
RenderAgain ==
    LET r == render_text_image(ret.args[1], ret.args[2], ret.args[3], ret.args[4],
                               ret.args[5], ret.args[6])
    IN  /\ ret.op = "render_text_image"
        /\ ret.nth < MaxRepeat
        /\ ret' = [ret EXCEPT !.raised = r.raised, !.value = r.image, !.nth = ret.nth + 1]
        /\ UNCHANGED <<fontfs, self>>

\* font files on disk, no dataset, nothing called
InitRender ==
    /\ fontfs \in FontEnvs
    /\ self = NoDataset
    /\ ret = NoCall

\* a caller renders a request, and then the same request again and again
NextRender ==
    \/ /\ ret.op = "none"
       /\ \E text \in SeqsUpTo(RenderChars, MaxText), image_size \in ImageSizes,
             font_name \in FontNames, font_size \in FontSizes,
             position \in PositionStrings, is_arabic \in BOOLEAN :
              RenderCall(text, image_size, font_name, font_size, position, is_arabic)
    \/ RenderAgain

\* the module-level function
SpecRender == InitRender /\ [][NextRender]_vars

\* a __getitem__ that takes the text out of the list (texts.pop(idx))
DatasetGetItemPop(idx) ==
    LET i == ListIndex(self.texts, idx)
    IN  /\ ret' = IF i.raised # "None"
                  THEN [op |-> "__getitem__", args |-> <<idx>>, raised |-> i.raised,
                        value |-> << >>]
                  ELSE [op |-> "__getitem__", args |-> <<idx>>, raised |-> "None",
                        value |-> <<transform(Dataset_render_text_image(
                                                  self, self.texts[i.at]).image),
                                    self.texts[i.at]>>]
        /\ self' = IF i.raised # "None" THEN self
                   ELSE [self EXCEPT !.texts =
                            SubSeq(self.texts, 1, i.at - 1)
                                \o SubSeq(self.texts, i.at + 1, Len(self.texts))]
        /\ UNCHANGED fontfs

\* TextImageDataset.__getitem__(idx)
DatasetGetItem(idx) ==
    LET i == ListIndex(self.texts, idx)
        text == self.texts[i.at]
        rendered == Dataset_render_text_image(self, text)
    IN  /\ ret' = IF i.raised # "None"
                  THEN [op |-> "__getitem__", args |-> <<idx>>, raised |-> i.raised,
                        value |-> << >>]
                  ELSE IF rendered.raised # "None"
                  THEN [op |-> "__getitem__", args |-> <<idx>>, raised |-> rendered.raised,
                        value |-> << >>]
                  ELSE [op |-> "__getitem__", args |-> <<idx>>, raised |-> "None",
                        value |-> <<transform(rendered.image), text>>]
        /\ UNCHANGED <<fontfs, self>>

\* font files on disk, a dataset constructed, nothing called on it yet
Init ==
    /\ fontfs \in FontEnvs
    /\ \E alphabet \in ItemAlphabets,
          max_length \in 0..MaxItemLength, font_name \in FontNames,
          font_size \in FontSizes, image_size \in ImageSizes, is_arabic \in BOOLEAN :
            self = Dataset_init(alphabet, max_length, font_name, font_size, image_size,
                                is_arabic)
    /\ ret = NoCall

Next ==
    \/ DatasetLen
    \/ \E idx \in (-Len(self.texts) - 1)..Len(self.texts) : DatasetGetItem(idx)
    \/ \E text \in {self.texts[i] : i \in DOMAIN self.texts} :
           RenderCall(text, self.image_size, self.font_name, self.font_size, "center",
                      self.is_arabic)

\* a dataset in use, and the module-level function called with the dataset's
\* settings and the anchor "center"
Spec == Init /\ [][Next]_vars

---------------------------------------------------------------------------
(* The enumeration: C1, C2, C3 (checked under SpecEnum) *)

RECURSIVE Pow(_, _)
Pow(a, k) == IF k = 0 THEN 1 ELSE a * Pow(a, k - 1)

\* a^0 + a^1 + ... + a^l
RECURSIVE SumPow(_, _)
SumPow(a, l) == IF l < 0 THEN 0 ELSE Pow(a, l) + SumPow(a, l - 1)

Built == ret.op \in {"__init__", "__len__"}

\* C1: for an alphabet of A characters and a max_length L >= 0, __len__() of
\* the dataset built from them is A^0 + A^1 + ... + A^L (1 when A = 0)
C1_Length ==
    ret.op = "__len__" =>
        /\ ret.value = SumPow(Len(self.alphabet), self.max_length)
        /\ Len(self.alphabet) = 0 => ret.value = 1

C1_Witness ==
    /\ ret.op = "__len__"
    /\ Len(self.alphabet) = 3
    /\ self.max_length = 3
    /\ ret.value = 40

\* C2: the enumerated list holds the empty string exactly once, at index 0
C2_EmptyOnceFirst ==
    Built =>
        /\ Len(self.texts) >= 1
        /\ self.texts[1] = << >>
        /\ \A i \in 2..Len(self.texts) : self.texts[i] # << >>

C2_Witness ==
    /\ ret.op = "__init__"
    /\ Len(self.alphabet) >= 2
    /\ self.max_length >= 2
    /\ Len(self.texts) > 1

\* the length of the text at index i (from 1): the k with
\* a^0 + ... + a^(k-1) < i <= a^0 + ... + a^k
RECURSIVE LengthAt(_, _, _)
LengthAt(a, i, k) == IF i <= SumPow(a, k) THEN k ELSE LengthAt(a, i, k + 1)

\* the i-th (from 1) string in the order "shorter first, then lexicographic by
\* the characters' places in the alphabet": the digits of its rank in base a
NthText(alphabet, i) ==
    LET a == Len(alphabet)
        k == LengthAt(a, i, 0)
        rank == i - 1 - SumPow(a, k - 1)
    IN  [p \in 1..k |-> alphabet[((rank \div Pow(a, k - p)) % a) + 1][1]]

\* the place of character c in the alphabet
RankOf(alphabet, c) == CHOOSE r \in 1..Len(alphabet) : alphabet[r] = <<c>>

\* s comes strictly before t (same length) in the lexicographic order
LexLess(alphabet, s, t) ==
    \E p \in 1..Len(s) :
        /\ \A q \in 1..(p - 1) : s[q] = t[q]
        /\ RankOf(alphabet, s[p]) < RankOf(alphabet, t[p])

Distinct(alphabet) ==
    \A i, j \in 1..Len(alphabet) : alphabet[i] = alphabet[j] => i = j

\* C3: the texts are ordered by increasing length and, within a length,
\* lexicographically by the characters' places in the alphabet; every string
\* of length 0..max_length over the alphabet appears, and appears exactly
\* once when the alphabet's characters are distinct
C3_Order ==
    Built =>
        LET texts == self.texts
            alphabet == self.alphabet
            letters == {alphabet[i][1] : i \in 1..Len(alphabet)}
            all == {texts[i] : i \in 1..Len(texts)}
        IN  /\ \A i \in 1..(Len(texts) - 1) : Len(texts[i]) <= Len(texts[i + 1])
            /\ \A i \in 1..Len(texts) : texts[i] = NthText(alphabet, i)
            /\ all = SeqsUpTo(letters, self.max_length)
            /\ Distinct(alphabet) =>
                   /\ Cardinality(all) = Len(texts)
                   /\ \A i \in 1..(Len(texts) - 1) :
                          Len(texts[i]) = Len(texts[i + 1]) =>
                              LexLess(alphabet, texts[i], texts[i + 1])

C3_Witness ==
    /\ ret.op = "__init__"
    /\ self.alphabet = << <<"b">>, <<"a">>, <<"r">> >>
    /\ self.max_length = 3
    /\ self.texts[6] = <<"b", "a">>

---------------------------------------------------------------------------
(* The module-level render_text_image: C5, C6, C9 (checked under SpecRender) *)

Rendered == ret.op = "render_text_image"

\* C5: a position string that is none of the nine anchors gives the draw
\* origin (0, 0) and the output of position 'top-left'; no error is raised
\* for it and no descent shift is applied
C5_UnknownAnchor ==
    Rendered /\ ret.args[5] \notin AnchorNames =>
        LET topleft == render_text_image(ret.args[1], ret.args[2], ret.args[3],
                                         ret.args[4], "top-left", ret.args[6])
        IN  /\ ret.raised = topleft.raised
            /\ ret.value = topleft.image
            /\ fontfs[ret.args[3]].exists => ret.raised = "None"
            /\ ret.raised = "None" => ret.value.at = <<0, 0>>

C5_Witness ==
    /\ Rendered
    /\ ret.args[5] = "middle"
    /\ ret.raised = "None"
    /\ ret.value.font.descent > 0
    /\ Len(ret.value.text) = 2

\* C6: for 'bottom-left', 'bottom-center' and 'bottom-right' the text is drawn
\* at y = height - text_height - descent and the bottom of the drawn text's
\* bounding box does not exceed the canvas height
C6_BottomInsideCanvas ==
    Rendered /\ ret.raised = "None" /\ ret.args[5] \in BottomAnchors =>
        LET bbox == textbbox(ret.value.text, ret.value.font)
        IN  /\ ret.value.at[2] =
                   ret.args[2][2] - (bbox[4] - bbox[2]) - ret.value.font.descent
            /\ ret.value.box[4] <= ret.args[2][2]

---------------------------------------------------------------------------
(* The dataset in use: C4, C7, C8, C10 (checked under Spec) *)

Fetched == ret.op = "__getitem__" /\ ret.raised = "None"

\* C4: __len__ and __getitem__ leave every field of the dataset unchanged,
\* and __getitem__(i) returns the text at index i of the unchanged list
C4_IndexStable ==
    [][/\ self' = self
       /\ ret'.op = "__getitem__" /\ ret'.raised = "None" =>
              ret'.value[2] = self.texts[ListIndex(self.texts, ret'.args[1]).at]]_vars

C4_Witness ==
    /\ Fetched
    /\ Len(self.texts) = 7
    /\ ret.args[1] = 4
    /\ ret.value[2] = <<"r", "a">>

\* the margins left and right of the drawn text differ by at most one pixel,
\* and so do the margins above and below
Centered(image) ==
    /\ image.box[1] - (image.size[1] - image.box[3]) \in -1..1
    /\ image.box[2] - (image.size[2] - image.box[4]) \in -1..1

\* C7: with position 'center', and in the dataset's renderer, the bounding box
\* of the text as drawn is centered on the canvas within one pixel
C7_Centered ==
    /\ Rendered /\ ret.raised = "None" /\ ret.args[5] = "center" => Centered(ret.value)
    /\ Fetched => Centered(ret.value[1].image)

\* C8: when the font file cannot be loaded, the module-level function raises
\* and returns no image; the dataset's renderer substitutes the default font
\* and returns an image
C8_FontFailure ==
    /\ Rendered /\ ~fontfs[ret.args[3]].exists =>
           ret.raised = "IOError" /\ ret.value = NoImage
    /\ ret.op = "__getitem__" /\ ret.raised # "IndexError"
         /\ ~fontfs[self.font_name].exists =>
           /\ ret.raised = "None"
           /\ ret.value[1].image.font = load_default
           /\ ret.value[1].image.size = self.image_size

C8_Witness ==
    /\ Fetched
    /\ ~fontfs[self.font_name].exists
    /\ ret.value[1].image.font = load_default
    /\ Len(ret.value[2]) = 2

\* C10: the dataset's renderer draws at the origin the module-level function
\* computes for position 'center', ((width - text_width) // 2,
\* (height - text_height) // 2), with no descent shift, whatever the dataset
C10_DatasetDrawsAtCenter ==
    Fetched /\ fontfs[self.font_name].exists =>
        LET image == ret.value[1].image
            center == render_text_image(ret.value[2], self.image_size, self.font_name,
                                        self.font_size, "center", self.is_arabic)
            bbox == textbbox(image.text, image.font)
        IN  /\ center.raised = "None"
            /\ image.at = center.image.at
            /\ image.at = <<(self.image_size[1] - (bbox[3] - bbox[1])) \div 2,
                            (self.image_size[2] - (bbox[4] - bbox[2])) \div 2>>

C10_Witness ==
    /\ Fetched
    /\ fontfs[self.font_name].exists
    /\ ret.value[1].image.font.descent > 0
    /\ Len(ret.value[2]) = 2
    /\ ret.value[1].image.at[1] < 0

===========================================================================
